---------------------------- MODULE Spec2Model ----------------------------
(***************************************************************************)
(* Model of the geospatial feature-engineering code of snowflake_mlops:    *)
(*   app/utils/geospatial_tools.py    (GeoSpatialTools)                    *)
(*   app/utils/external_features.py   (ExternalFeaturesProcessor)          *)
(*                                                                         *)
(* Every public method is a synchronous, stateless call on a data frame.   *)
(* Each method is modelled as one action that takes the call's arguments   *)
(* (chosen in the initial state from bounded sets) to the call's outcome:  *)
(* the value returned, or the exception that leaves the method.  There is  *)
(* one specification per method group; the variables of the other groups   *)
(* stay at their idle value.                                               *)
(*                                                                         *)
(* Numbers: distances are integers in metres (0.001 km); a value rounded   *)
(* to two decimals is an integer number of hundredths of a km.             *)
(* cost_of_living values are integers in tenths, with NaN as a separate    *)
(* value that compares false with everything.                              *)
(***************************************************************************)
EXTENDS Integers, Sequences, FiniteSets, TLC

VARIABLES
    \* ---- GeoSpatialTools.hex_distance_from_coordinates[_vectorized]
    hex,            \* the origin cell of the call
    coor_list,      \* the list of target coordinates of the call
    distImpl,       \* "none" | "loop" | "vectorized": which method ran
    distOutcome,    \* "idle" | "returned" | "raised"
    distResult,     \* returned value, in hundredths of a km (0 when none)
    \* ---- GeoSpatialTools.nearest_hex_8_in_parent
    raw_df,         \* input frame: sequence of [hex_id, missing]
    par_resolution, \* the parent resolution of the call
    nnOutcome,      \* "idle" | "returned"
    nn,             \* column nn_h8_h_<res> of the returned frame, per row
    \* ---- ExternalFeaturesProcessor.classify_points_by_cost_zone
    points_hex,     \* column hex_id of points_df
    train_df,       \* training frame: sequence of [hex_id, cost_of_living]
    high_cost_threshold,
    zoneOutcome,    \* "idle" | "returned"
    high_cost_hex,  \* local of the call, kept for inspection
    low_cost_hex,   \* local of the call, kept for inspection
    cost_of_living, \* column cost_of_living of the returned frame
    \* ---- ExternalFeaturesProcessor.add_poi_binary_flags
    points_df,      \* input frame: sequence of [shop, amenity]
    flagOutcome,    \* "idle" | "returned" | "AttributeError"
    flag_df,        \* the local df when the call ended: per row, the
                    \* columns assigned so far and their 0/1 value
    \* ---- ExternalFeaturesProcessor.aggregate_poi_by_hex
    agg_in,         \* input frame: sequence of [hex_id, flags]
    aggOutcome,     \* "idle" | "returned"
    df_aggregated   \* returned frame: sequence of [hex_id, counts]

vars == << hex, coor_list, distImpl, distOutcome, distResult,
           raw_df, par_resolution, nnOutcome, nn,
           points_hex, train_df, high_cost_threshold, zoneOutcome,
           high_cost_hex, low_cost_hex, cost_of_living,
           points_df, flagOutcome, flag_df,
           agg_in, aggOutcome, df_aggregated >>

distVars == << hex, coor_list, distImpl, distOutcome, distResult >>
nnVars   == << raw_df, par_resolution, nnOutcome, nn >>
zoneVars == << points_hex, train_df, high_cost_threshold, zoneOutcome,
               high_cost_hex, low_cost_hex, cost_of_living >>
flagVars == << points_df, flagOutcome, flag_df >>
aggVars  == << agg_in, aggOutcome, df_aggregated >>

----------------------------------------------------------------------------
(* Generic helpers *)

SeqsUpTo(S, n) == UNION { [1..k -> S] : k \in 0..n }

Range(s) == { s[i] : i \in 1..Len(s) }

Abs(x) == IF x < 0 THEN -x ELSE x

SetMin(S) == CHOOSE m \in S : \A x \in S : m <= x

\* Idle values of each group of variables
DistIdle ==
    /\ hex = 0 /\ coor_list = << >> /\ distImpl = "none"
    /\ distOutcome = "idle" /\ distResult = 0

NnIdle ==
    /\ raw_df = << >> /\ par_resolution = 0 /\ nnOutcome = "idle" /\ nn = << >>

ZoneIdle ==
    /\ points_hex = << >> /\ train_df = << >> /\ high_cost_threshold = 0
    /\ zoneOutcome = "idle" /\ high_cost_hex = << >> /\ low_cost_hex = << >>
    /\ cost_of_living = << >>

FlagIdle ==
    /\ points_df = << >> /\ flagOutcome = "idle" /\ flag_df = << >>

AggIdle ==
    /\ agg_in = << >> /\ aggOutcome = "idle" /\ df_aggregated = << >>

----------------------------------------------------------------------------
(* GeoSpatialTools: nearest distance from a cell to a list of coordinates  *)

\* Longest coor_list tried
MaxTargets == 3

\* Origin cells tried, and the positions (metres along a line) of the
\* well-formed target coordinates tried.  A coordinate with ok = FALSE is a
\* malformed one (for instance ("abc", 0.0)): computing a distance to it
\* raises, in geopy as well as in numpy.
DistHexes == {1, 2}

TargetPositions == {1004, 1005, 1015, 1016, 3500}

TargetCoords ==
    { [ok |-> TRUE, pos |-> p] : p \in TargetPositions }
        \cup { [ok |-> FALSE, pos |-> 0] }

\* h3.cell_to_latlng: the centre of a cell
get_h3_center(h) == [ok |-> TRUE, pos |-> 1000 * h]

\* geodesic(coord1, coord2).km, in metres; raises on a malformed coordinate
calculate_coord_distance(coord1, coord2) ==
    IF coord1.ok /\ coord2.ok
    THEN [raised |-> FALSE, m |-> Abs(coord1.pos - coord2.pos)]
    ELSE [raised |-> TRUE, m |-> 0]

\* round(x, 2): metres to hundredths of a km, ties to the even neighbour
Round2NoRound(m) == m \div 10

Round2(m) ==
    LET q == m \div 10
        r == m % 10
    IN  IF r < 5 THEN q
        ELSE IF r > 5 THEN q + 1
        ELSE IF q % 2 = 0 THEN q ELSE q + 1

\* The value returned when there is nothing to take the minimum of
SentinelKm == 999999

Sentinel == SentinelKm * 100

\* min(cap_distances): raises ValueError on an empty list
RECURSIVE ListMin(_)
ListMin(s) ==
    IF Len(s) = 1 THEN s[1]
    ELSE LET rest == ListMin(Tail(s))
         IN  IF rest < s[1] THEN rest ELSE s[1]

\* the for loop of hex_distance_from_coordinates: appends one distance per
\* coordinate; an exception of calculate_coord_distance leaves the loop
RECURSIVE CapDistances(_, _, _)
CapDistances(coor_base, cl, acc) ==
    IF cl = << >> THEN [raised |-> FALSE, list |-> acc]
    ELSE LET d == calculate_coord_distance(coor_base, Head(cl))
         IN  IF d.raised THEN [raised |-> TRUE, list |-> acc]
             ELSE CapDistances(coor_base, Tail(cl), Append(acc, d.m))

\* the try block of hex_distance_from_coordinates
TryMin(cap_distances) ==
    IF cap_distances = << >>
    THEN [raised |-> FALSE, value |-> Sentinel]     \* except Exception
    ELSE [raised |-> FALSE, value |-> Round2(ListMin(cap_distances))]

LoopResult(h, cl) ==
    LET coor_base == get_h3_center(h)
        loop == CapDistances(coor_base, cl, << >>)
    IN  IF loop.raised THEN [raised |-> TRUE, value |-> 0]
        ELSE TryMin(loop.list)

hex_distance_from_coordinates ==
    /\ distOutcome = "idle"
    /\ LET r == LoopResult(hex, coor_list)
       IN  /\ distOutcome' = IF r.raised THEN "raised" ELSE "returned"
           /\ distResult' = r.value
    /\ distImpl' = "loop"
    /\ UNCHANGED << hex, coor_list >>
    /\ UNCHANGED << nnVars, zoneVars, flagVars, aggVars >>

\* haversine_vectorized: one distance per row of coords_array; numpy raises
\* when a row is not numeric
RECURSIVE haversine_vectorized(_, _)
haversine_vectorized(base_coord, coords_array) ==
    IF coords_array = << >> THEN [raised |-> FALSE, list |-> << >>]
    ELSE LET d == calculate_coord_distance(base_coord, Head(coords_array))
             rest == haversine_vectorized(base_coord, Tail(coords_array))
         IN  IF d.raised \/ rest.raised THEN [raised |-> TRUE, list |-> << >>]
             ELSE [raised |-> FALSE, list |-> << d.m >> \o rest.list]

VectorizedResult(hex_center, cl) ==
    IF cl = << >> THEN [raised |-> FALSE, value |-> Sentinel]
    ELSE LET distances == haversine_vectorized(hex_center, cl)
         IN  IF distances.raised THEN [raised |-> TRUE, value |-> 0]
             ELSE [raised |-> FALSE,
                   value |-> Round2(ListMin(distances.list))]

hex_distance_from_coordinates_vectorized ==
    /\ distOutcome = "idle"
    /\ LET r == VectorizedResult(get_h3_center(hex), coor_list)
       IN  /\ distOutcome' = IF r.raised THEN "raised" ELSE "returned"
           /\ distResult' = r.value
    /\ distImpl' = "vectorized"
    /\ UNCHANGED << hex, coor_list >>
    /\ UNCHANGED << nnVars, zoneVars, flagVars, aggVars >>

InitDist ==
    /\ hex \in DistHexes
    /\ coor_list \in SeqsUpTo(TargetCoords, MaxTargets)
    /\ distImpl = "none" /\ distOutcome = "idle" /\ distResult = 0
    /\ NnIdle /\ ZoneIdle /\ FlagIdle /\ AggIdle

NextDist ==
    \/ hex_distance_from_coordinates
    \/ hex_distance_from_coordinates_vectorized

SpecDist == InitDist /\ [][NextDist]_vars

\* the per-target distances of a call whose coordinates are all well formed
TargetDistances ==
    { Abs(get_h3_center(hex).pos - coor_list[i].pos) : i \in 1..Len(coor_list) }

AllTargetsOk == \A i \in 1..Len(coor_list) : coor_list[i].ok

\* r hundredths of a km is m metres rounded to two decimals: the nearest
\* hundredth, and the even one when m is half way between two
IsRoundedTo2(r, m) ==
    /\ Abs(10 * r - m) <= 5
    /\ Abs(10 * r - m) = 5 => r % 2 = 0

\* C5: with an empty target list both implementations return exactly the
\* sentinel 999999 and do not raise; with a non-empty list a returned value
\* is the minimum of the per-target distances rounded to two decimals, and
\* a value is returned whenever every target is well formed.
C5_SentinelAndMin ==
    distOutcome # "idle" =>
        /\ coor_list = << >> =>
               distOutcome = "returned" /\ distResult = SentinelKm * 100
        /\ (coor_list # << >> /\ AllTargetsOk) => distOutcome = "returned"
        /\ (coor_list # << >> /\ distOutcome = "returned") =>
               /\ AllTargetsOk
               /\ IsRoundedTo2(distResult, SetMin(TargetDistances))

C5_Witness ==
    \/ /\ distImpl = "loop" /\ coor_list = << >> /\ distResult = SentinelKm * 100
    \/ /\ distImpl = "vectorized" /\ Len(coor_list) >= 2
       /\ distOutcome = "returned"
       /\ coor_list[1].pos > coor_list[2].pos
       /\ distResult * 10 # SetMin(TargetDistances)

\* C6: a failure while computing the distance to one target is caught
\* inside the call, which returns the sentinel; it never reaches the caller.
C6_FailureCaught ==
    (distOutcome # "idle" /\ ~AllTargetsOk) =>
        distOutcome = "returned" /\ distResult = SentinelKm * 100

----------------------------------------------------------------------------
(* GeoSpatialTools.nearest_hex_8_in_parent                                 *)

\* Most rows in raw_df tried
MaxCells == 3

\* The resolution-8 cells tried.  A cell id encodes its axial coordinates
\* (q, r) on the hexagonal grid as 10 * q + r.
NnHexes == {11, 12, 21, 23, 41}

\* Parent resolutions tried
ParResolutions == {6, 7}

\* A null cell of a column (NaN / None)
NoCell == 0

Null == "null"

MissingValues == {Null, "x"}

CellQ(h) == h \div 10

CellR(h) == h % 10

\* h3.cell_to_parent(x, res): at resolution 7 the cells with q in 0..2
\* share one parent and those with q in 3..5 another; at resolution 6 all
\* the cells tried share one parent
cell_to_parent(x, res) ==
    IF res >= 7 THEN 100 * res + (CellQ(x) \div 3) ELSE 100 * res

\* h3.grid_distance(a, b): number of grid steps between two cells
grid_distance(a, b) ==
    LET dq == CellQ(a) - CellQ(b)
        dr == CellR(a) - CellR(b)
    IN  (Abs(dq) + Abs(dr) + Abs(dq + dr)) \div 2

\* [f(x) for x in s]
RECURSIVE HexIds(_)
HexIds(rows) ==
    IF rows = << >> THEN << >>
    ELSE << Head(rows).hex_id >> \o HexIds(Tail(rows))

\* df[(df[parent] == current_hex_parent) & ~df['missing'].isnull()]['hex_id']
SameParentWithValue(df, res, current_hex_parent) ==
    LET Keep(row) == /\ cell_to_parent(row.hex_id, res) = current_hex_parent
                     /\ row.missing # Null
    IN  HexIds(SelectSeq(df, Keep))

\* [h for h in candidates if h != current_hex]
RemoveItself(candidates, current_hex) ==
    LET NotSelf(h) == h # current_hex
    IN  SelectSeq(candidates, NotSelf)

\* min(candidates, key=lambda h: grid_distance(current_hex, h)): the first
\* element of the list whose key is smallest
RECURSIVE MinByGridDistanceLast(_, _)
MinByGridDistanceLast(candidates, current_hex) ==
    IF Len(candidates) = 1 THEN candidates[1]
    ELSE LET best == MinByGridDistanceLast(Tail(candidates), current_hex)
         IN  IF grid_distance(current_hex, candidates[1])
                    < grid_distance(current_hex, best)
             THEN candidates[1] ELSE best

RECURSIVE MinScan(_, _, _)
MinScan(candidates, current_hex, best) ==
    IF candidates = << >> THEN best
    ELSE MinScan(Tail(candidates), current_hex,
                 IF grid_distance(current_hex, Head(candidates))
                        < grid_distance(current_hex, best)
                 THEN Head(candidates) ELSE best)

MinByGridDistance(candidates, current_hex) ==
    MinScan(Tail(candidates), current_hex, Head(candidates))

\* one iteration of the loop over df.iterrows(): the value the row idx has
\* in column nn_h8_h_<res> afterwards (NoCell when nothing is assigned)
NearestRowOnlyMissing(df, res, idx) ==
    LET current_hex == df[idx].hex_id
        current_hex_parent == cell_to_parent(current_hex, res)
        candidates == RemoveItself(
            SameParentWithValue(df, res, current_hex_parent), current_hex)
    IN  IF df[idx].missing = Null /\ candidates # << >>
        THEN MinByGridDistance(candidates, current_hex)
        ELSE NoCell

NearestRow(df, res, idx) ==
    LET current_hex == df[idx].hex_id
        current_hex_parent == cell_to_parent(current_hex, res)
        candidates == RemoveItself(
            SameParentWithValue(df, res, current_hex_parent), current_hex)
    IN  IF candidates # << >>
        THEN MinByGridDistance(candidates, current_hex)
        ELSE NoCell

\* The iterations only write column nn_h8_h_<res>, which no iteration
\* reads, so the column after the loop is the per-row value.
nearest_hex_8_in_parent ==
    /\ nnOutcome = "idle"
    /\ nn' = [idx \in 1..Len(raw_df) |-> NearestRow(raw_df, par_resolution, idx)]
    /\ nnOutcome' = "returned"
    /\ UNCHANGED << raw_df, par_resolution >>
    /\ UNCHANGED << distVars, zoneVars, flagVars, aggVars >>

InitNn ==
    /\ raw_df \in SeqsUpTo([hex_id : NnHexes, missing : MissingValues], MaxCells)
    /\ par_resolution \in ParResolutions
    /\ nnOutcome = "idle" /\ nn = << >>
    /\ DistIdle /\ ZoneIdle /\ FlagIdle /\ AggIdle

NextNn == nearest_hex_8_in_parent

SpecNn == InitNn /\ [][NextNn]_vars

\* rows of the input that qualify as the imputed neighbour of row i: same
\* parent, attribute present, another cell id
CandidateRows(i) ==
    { j \in 1..Len(raw_df) :
        /\ cell_to_parent(raw_df[j].hex_id, par_resolution)
               = cell_to_parent(raw_df[i].hex_id, par_resolution)
        /\ raw_df[j].missing # Null
        /\ raw_df[j].hex_id # raw_df[i].hex_id }

RowDistance(i, j) == grid_distance(raw_df[i].hex_id, raw_df[j].hex_id)

\* the first row, in input order, among the candidates of i nearest to i
FirstNearestRow(i) ==
    SetMin({ j \in CandidateRows(i) :
               \A k \in CandidateRows(i) : RowDistance(i, j) <= RowDistance(i, k) })

\* C4: the call returns; the imputed neighbour of a row is never the row's
\* own cell id, is the cell of a candidate row (same parent, attribute
\* present), is at minimum grid distance among the candidates and, on a
\* tie, is the candidate first in input order; a row without candidates
\* has no imputed neighbour.
C4_NearestCandidate ==
    nnOutcome = "returned" =>
        /\ Len(nn) = Len(raw_df)
        /\ \A i \in 1..Len(raw_df) :
              IF CandidateRows(i) = {}
              THEN nn[i] = NoCell
              ELSE /\ nn[i] # raw_df[i].hex_id
                   /\ \E j \in CandidateRows(i) : raw_df[j].hex_id = nn[i]
                   /\ \A k \in CandidateRows(i) :
                          grid_distance(raw_df[i].hex_id, nn[i]) <= RowDistance(i, k)
                   /\ nn[i] = raw_df[FirstNearestRow(i)].hex_id

\* a row whose own attribute is present, with two candidates at the same
\* smallest distance, the first of which is chosen
C4_Witness ==
    /\ nnOutcome = "returned"
    /\ \E i \in 1..Len(raw_df) :
          /\ raw_df[i].missing # Null
          /\ \E j, k \in CandidateRows(i) :
                /\ j < k
                /\ raw_df[j].hex_id # raw_df[k].hex_id
                /\ RowDistance(i, j) = RowDistance(i, k)
                /\ nn[i] = raw_df[j].hex_id

\* C10 as stated: only rows whose attribute is absent get an imputed
\* neighbour; a row whose attribute is present gets none.
C10_OnlyMissingRows ==
    nnOutcome = "returned" =>
        \A i \in 1..Len(raw_df) : raw_df[i].missing # Null => nn[i] = NoCell

\* C10 amended: every row, whatever its own attribute, gets an imputed
\* neighbour exactly when the input has a candidate for it.
C10_EveryRowSearched ==
    nnOutcome = "returned" =>
        \A i \in 1..Len(raw_df) : (nn[i] # NoCell) <=> (CandidateRows(i) # {})

C10_Witness ==
    /\ nnOutcome = "returned"
    /\ \E i, j \in 1..Len(raw_df) :
          /\ raw_df[i].missing # Null /\ nn[i] # NoCell
          /\ raw_df[j].missing = Null /\ nn[j] # NoCell

----------------------------------------------------------------------------
(* ExternalFeaturesProcessor.classify_points_by_cost_zone                  *)

\* Most rows in train_df and in points_df tried
MaxTrain == 2

MaxPoints == 2

TrainHexes == {1, 2}

PointHexes == {1, 2, 3}

\* cost_of_living values tried, in tenths; nan = TRUE is NaN
CostValues ==
    { [nan |-> FALSE, tenths |-> t] : t \in {3, 5, 7} }
        \cup { [nan |-> TRUE, tenths |-> 0] }

\* thresholds tried, in tenths (0.5 is the default of the parameter)
Thresholds == {5, 7}

\* train_df["cost_of_living"] > high_cost_threshold
IsHighCostGe(cost, threshold) == ~cost.nan /\ cost.tenths >= threshold

IsHighCost(cost, threshold) == ~cost.nan /\ cost.tenths > threshold

\* train_df["cost_of_living"] <= high_cost_threshold
IsLowCost(cost, threshold) == ~cost.nan /\ cost.tenths <= threshold

\* Series.unique(): the distinct values in order of first appearance
RECURSIVE Unique(_, _)
Unique(s, acc) ==
    IF s = << >> THEN acc
    ELSE Unique(Tail(s),
                IF \E i \in 1..Len(acc) : acc[i] = Head(s)
                THEN acc ELSE Append(acc, Head(s)))

\* Series.isin(values), for one element
isin(x, values) == \E i \in 1..Len(values) : values[i] = x

HighCostHex(train, threshold) ==
    LET Keep(row) == IsHighCost(row.cost_of_living, threshold)
    IN  Unique(HexIds(SelectSeq(train, Keep)), << >>)

LowCostHex(train, threshold) ==
    LET Keep(row) == IsLowCost(row.cost_of_living, threshold)
    IN  Unique(HexIds(SelectSeq(train, Keep)), << >>)

\* np.where(isin(high), 1, np.where(isin(low), 2, 0)), for one element
ZoneCodeLowFirst(h, high, low) ==
    IF isin(h, low) THEN 2 ELSE IF isin(h, high) THEN 1 ELSE 0

ZoneCode(h, high, low) ==
    LET inner == IF isin(h, low) THEN 2 ELSE 0
    IN  IF isin(h, high) THEN 1 ELSE inner

classify_points_by_cost_zone ==
    /\ zoneOutcome = "idle"
    /\ high_cost_hex' = HighCostHex(train_df, high_cost_threshold)
    /\ low_cost_hex' = LowCostHex(train_df, high_cost_threshold)
    /\ cost_of_living' =
           [i \in 1..Len(points_hex) |->
               ZoneCode(points_hex[i], high_cost_hex', low_cost_hex')]
    /\ zoneOutcome' = "returned"
    /\ UNCHANGED << points_hex, train_df, high_cost_threshold >>
    /\ UNCHANGED << distVars, nnVars, flagVars, aggVars >>

InitZone ==
    /\ points_hex \in SeqsUpTo(PointHexes, MaxPoints)
    /\ train_df \in SeqsUpTo([hex_id : TrainHexes, cost_of_living : CostValues],
                             MaxTrain)
    /\ high_cost_threshold \in Thresholds
    /\ zoneOutcome = "idle" /\ high_cost_hex = << >> /\ low_cost_hex = << >>
    /\ cost_of_living = << >>
    /\ DistIdle /\ NnIdle /\ FlagIdle /\ AggIdle

NextZone == classify_points_by_cost_zone

SpecZone == InitZone /\ [][NextZone]_vars

\* C3: every point gets exactly one code: 1 (HIGH) when its cell is in the
\* high set, else 2 (LOW) when it is in the low set, else 0 (UNKNOWN); a
\* cell in both sets is HIGH; two points with the same cell get the same
\* code.
C3_ZoneLabel ==
    zoneOutcome = "returned" =>
        /\ Len(cost_of_living) = Len(points_hex)
        /\ \A i \in 1..Len(points_hex) :
              LET inHigh == points_hex[i] \in Range(high_cost_hex)
                  inLow  == points_hex[i] \in Range(low_cost_hex)
              IN  /\ cost_of_living[i] \in {0, 1, 2}
                  /\ inHigh => cost_of_living[i] = 1
                  /\ (~inHigh /\ inLow) => cost_of_living[i] = 2
                  /\ (~inHigh /\ ~inLow) => cost_of_living[i] = 0
        /\ \A i, j \in 1..Len(points_hex) :
              points_hex[i] = points_hex[j] => cost_of_living[i] = cost_of_living[j]

\* a point whose cell is in both sets, labelled HIGH
C3_Witness ==
    /\ zoneOutcome = "returned"
    /\ \E i \in 1..Len(points_hex) :
          /\ points_hex[i] \in Range(high_cost_hex)
          /\ points_hex[i] \in Range(low_cost_hex)
          /\ cost_of_living[i] = 1

\* C9: the high set is the set of cells with a sample whose cost is above
\* the threshold, the low set the set of cells with a sample whose cost is
\* at or below it (a cost equal to the threshold is low); with no training
\* rows both sets are empty and every point is UNKNOWN.
C9_ZoneIndex ==
    zoneOutcome = "returned" =>
        /\ Range(high_cost_hex) =
              { train_df[k].hex_id : k \in
                  { n \in 1..Len(train_df) :
                      /\ ~train_df[n].cost_of_living.nan
                      /\ train_df[n].cost_of_living.tenths > high_cost_threshold } }
        /\ Range(low_cost_hex) =
              { train_df[k].hex_id : k \in
                  { n \in 1..Len(train_df) :
                      /\ ~train_df[n].cost_of_living.nan
                      /\ train_df[n].cost_of_living.tenths <= high_cost_threshold } }
        /\ train_df = << >> =>
              /\ high_cost_hex = << >> /\ low_cost_hex = << >>
              /\ \A i \in 1..Len(points_hex) : cost_of_living[i] = 0

\* a sample whose cost equals the threshold puts its cell in the low set
\* only, and a point of that cell is labelled LOW
C9_Witness ==
    /\ zoneOutcome = "returned"
    /\ \E k \in 1..Len(train_df) :
          /\ ~train_df[k].cost_of_living.nan
          /\ train_df[k].cost_of_living.tenths = high_cost_threshold
          /\ train_df[k].hex_id \in Range(low_cost_hex)
          /\ train_df[k].hex_id \notin Range(high_cost_hex)
          /\ \E i \in 1..Len(points_hex) :
                points_hex[i] = train_df[k].hex_id /\ cost_of_living[i] = 2

----------------------------------------------------------------------------
(* ExternalFeaturesProcessor.__init__ and add_poi_binary_flags             *)

\* Most rows in points_df tried
MaxFlagRows == 1

\* _define_amenity_categories
health_amenities == {"doctors", "veterinary"}

security_amenities_overlap == {"police", "fire", "doctors"}

security_amenities == {"police", "fire"}

leisure_amenities == {"restaurant", "internet_cafe"}

education_amenities == {"school", "college"}

car_amenities == {"parking_entrance", "parking", "bus_station"}

public_amenities == {"shelter", "post_office", "townhall", "marketplace"}

negative_amenities ==
    {"waste_disposal", "love_hotel", "prison", "gambling",
     "stripclub", "sanitary_dump_station", "casino", "grave_yard"}

sea_amenities ==
    {"boat_rental", "scuba_diving", "ferry_terminal",
     "boat_storage", "dive_centre"}

\* _define_shop_categories
groceries_and_food ==
    {"bakery", "greengrocer", "butcher", "alcohol", "beverages",
     "convenience", "hardware", "department_store", "laundry"}

lux_shop == {"florist", "gift", "confectionery"}

tech_shop == {"electronics", "mobile_phone", "beauty", "optician", "shoes"}

cars_shop == {"car_parts", "tyres"}

other_shop == {"yes"}

\* The attributes an ExternalFeaturesProcessor has after __init__
AmenityAttributes ==
    [health_amenities    |-> health_amenities,
     security_amenities  |-> security_amenities,
     leisure_amenities   |-> leisure_amenities,
     education_amenities |-> education_amenities,
     car_amenities       |-> car_amenities,
     public_amenities    |-> public_amenities,
     negative_amenities  |-> negative_amenities,
     sea_amenities       |-> sea_amenities]

ShopAttributes ==
    [groceries_and_food |-> groceries_and_food,
     lux_shop           |-> lux_shop,
     tech_shop          |-> tech_shop,
     cars_shop          |-> cars_shop,
     other_shop         |-> other_shop]

SelfAttributes == AmenityAttributes @@ ShopAttributes

\* The column assignments of add_poi_binary_flags, in program order:
\* df[col] = df[field].isin(self.<attr>).astype(int)
FlagAssignments ==
    << [col |-> "groceries_shop", field |-> "shop",    attr |-> "groceries_and_food"],
       [col |-> "lux_shop",       field |-> "shop",    attr |-> "lux_shop"],
       [col |-> "tech_shop",      field |-> "shop",    attr |-> "tech_shop"],
       [col |-> "car_shop",       field |-> "shop",    attr |-> "cars_shop"],
       [col |-> "other_shop",     field |-> "shop",    attr |-> "other_shop"],
       [col |-> "health",         field |-> "amenity", attr |-> "health_amenities"],
       [col |-> "security",       field |-> "amenity", attr |-> "security_amenities"],
       [col |-> "financial",      field |-> "amenity", attr |-> "financial_amenities"],
       [col |-> "leisure",        field |-> "amenity", attr |-> "leisure_amenities"],
       [col |-> "education",      field |-> "amenity", attr |-> "education_amenities"],
       [col |-> "cars",           field |-> "amenity", attr |-> "car_amenities"],
       [col |-> "negative",       field |-> "amenity", attr |-> "negative_amenities"],
       [col |-> "sea",            field |-> "amenity", attr |-> "sea_amenities"] >>

\* poi_columns of aggregate_poi_by_hex
poi_columns ==
    {"groceries_shop", "lux_shop", "tech_shop", "car_shop", "other_shop",
     "health", "security", "financial", "leisure", "education",
     "cars", "negative", "sea"}

ShopColumns ==
    {"groceries_shop", "lux_shop", "tech_shop", "car_shop", "other_shop"}

AmenityColumns == poi_columns \ ShopColumns

\* Tags tried: every tag of a list, one tag of no list, and the null tag
ShopTagsTried ==
    UNION { ShopAttributes[a] : a \in DOMAIN ShopAttributes }
        \cup {"supermarket", Null}

AmenityTagsTried ==
    UNION { AmenityAttributes[a] : a \in DOMAIN AmenityAttributes }
        \cup {"bank", Null}

\* the tag of a row in column field
FieldOf(row, field) == IF field = "shop" THEN row.shop ELSE row.amenity

\* Series.isin(list).astype(int), for one element; a null is in no list
IsinAsInt(tag, list) == IF tag # Null /\ tag \in list THEN 1 ELSE 0

\* Runs the assignments from the k-th on.  df is the local frame (per row,
\* the columns assigned so far).  Reading an attribute the object does not
\* have raises AttributeError and leaves the method.
RECURSIVE RunAssignments(_, _, _)
RunAssignments(input, df, k) ==
    IF k > Len(FlagAssignments) THEN [outcome |-> "returned", df |-> df]
    ELSE LET a == FlagAssignments[k]
         IN  IF a.attr \notin DOMAIN SelfAttributes
             THEN [outcome |-> "AttributeError", df |-> df]
             ELSE RunAssignments(input,
                      [i \in 1..Len(input) |->
                          df[i] @@ (a.col :> IsinAsInt(FieldOf(input[i], a.field),
                                                       SelfAttributes[a.attr]))],
                      k + 1)

EmptyRow == [c \in {} |-> 0]

add_poi_binary_flags ==
    /\ flagOutcome = "idle"
    /\ LET r == RunAssignments(points_df,
                               [i \in 1..Len(points_df) |-> EmptyRow], 1)
       IN  /\ flagOutcome' = r.outcome
           /\ flag_df' = r.df
    /\ UNCHANGED points_df
    /\ UNCHANGED << distVars, nnVars, zoneVars, aggVars >>

InitFlags ==
    /\ points_df \in SeqsUpTo([shop : ShopTagsTried, amenity : AmenityTagsTried],
                              MaxFlagRows)
    /\ flagOutcome = "idle" /\ flag_df = << >>
    /\ DistIdle /\ NnIdle /\ ZoneIdle /\ AggIdle

NextFlags == add_poi_binary_flags

SpecFlags == InitFlags /\ [][NextFlags]_vars

\* the list the code pairs with a column
ListOfColumn(col) ==
    LET a == CHOOSE x \in Range(FlagAssignments) : x.col = col
    IN  IF a.attr \in DOMAIN SelfAttributes THEN SelfAttributes[a.attr] ELSE {}

\* C2: the call completes and every row has a flag for each of the columns
\* the aggregator sums: a shop flag is 1 exactly when the shop tag is in
\* the column's list, an amenity flag exactly when the amenity tag is, and
\* a null tag gives 0 in every column of its namespace.
C2_FlagsComplete ==
    flagOutcome # "idle" =>
        /\ flagOutcome = "returned"
        /\ \A i \in 1..Len(points_df) :
              /\ DOMAIN flag_df[i] = poi_columns
              /\ \A c \in ShopColumns :
                    (flag_df[i][c] = 1) <=>
                        (points_df[i].shop # Null
                            /\ points_df[i].shop \in ListOfColumn(c))
              /\ \A c \in AmenityColumns :
                    (flag_df[i][c] = 1) <=>
                        (points_df[i].amenity # Null
                            /\ points_df[i].amenity \in ListOfColumn(c))

\* the flags of row i that are 1, among the columns cols
TrueFlags(i, cols) == { c \in DOMAIN flag_df[i] \cap cols : flag_df[i][c] = 1 }

\* C8: no tag is in two lists of the same namespace, and every row of the
\* frame the call built has at most one shop flag and at most one amenity
\* flag set, hence at most two flags.
C8_AtMostOnePerNamespace ==
    /\ \A a, b \in DOMAIN ShopAttributes :
          a # b => ShopAttributes[a] \cap ShopAttributes[b] = {}
    /\ \A a, b \in DOMAIN AmenityAttributes :
          a # b => AmenityAttributes[a] \cap AmenityAttributes[b] = {}
    /\ flagOutcome # "idle" =>
          \A i \in 1..Len(flag_df) :
             /\ Cardinality(TrueFlags(i, ShopColumns)) <= 1
             /\ Cardinality(TrueFlags(i, AmenityColumns)) <= 1
             /\ Cardinality(TrueFlags(i, poi_columns)) <= 2

\* a row with both tags present and listed: one shop flag and one amenity
\* flag are set
C8_Witness ==
    /\ flagOutcome # "idle"
    /\ \E i \in 1..Len(flag_df) :
          /\ points_df[i].shop # Null /\ points_df[i].amenity # Null
          /\ Cardinality(TrueFlags(i, ShopColumns)) = 1
          /\ Cardinality(TrueFlags(i, AmenityColumns)) = 1

----------------------------------------------------------------------------
(* ExternalFeaturesProcessor.aggregate_poi_by_hex                          *)

\* Most rows in the classified frame tried
MaxRecords == 3

AggHexes == {1, 2}

\* The flag patterns tried: the set of columns that are 1 in a row
FlagPatterns ==
    { {}, {"groceries_shop"}, {"security"}, {"groceries_shop", "security"} }

FlagRow(pattern) == [c \in poi_columns |-> IF c \in pattern THEN 1 ELSE 0]

ClassifiedRows ==
    { [hex_id |-> h, flags |-> FlagRow(p)] : h \in AggHexes, p \in FlagPatterns }

\* groupby("hex_id"): the distinct keys, in ascending order
RECURSIVE SortedKeys(_)
SortedKeys(S) ==
    IF S = {} THEN << >>
    ELSE LET m == SetMin(S) IN << m >> \o SortedKeys(S \ {m})

GroupKeys(df) == SortedKeys(Range(HexIds(df)))

\* agg "sum" of one column over the rows of one group, in row order
RECURSIVE ColumnLast(_, _, _)
ColumnLast(df, key, col) ==
    IF df = << >> THEN 0
    ELSE IF df[Len(df)].hex_id = key THEN df[Len(df)].flags[col]
    ELSE ColumnLast(SubSeq(df, 1, Len(df) - 1), key, col)

RECURSIVE ColumnAny(_, _, _)
ColumnAny(df, key, col) ==
    IF df = << >> THEN 0
    ELSE IF Head(df).hex_id = key /\ Head(df).flags[col] = 1 THEN 1
    ELSE ColumnAny(Tail(df), key, col)

RECURSIVE ColumnSum(_, _, _)
ColumnSum(df, key, col) ==
    IF df = << >> THEN 0
    ELSE (IF Head(df).hex_id = key THEN Head(df).flags[col] ELSE 0)
            + ColumnSum(Tail(df), key, col)

\* points_df.groupby("hex_id").agg(operations).reset_index()
Aggregate(df) ==
    LET keys == GroupKeys(df)
    IN  [g \in 1..Len(keys) |->
            [hex_id |-> keys[g],
             counts |-> [c \in poi_columns |-> ColumnSum(df, keys[g], c)]]]

aggregate_poi_by_hex ==
    /\ aggOutcome = "idle"
    /\ df_aggregated' = Aggregate(agg_in)
    /\ aggOutcome' = "returned"
    /\ UNCHANGED agg_in
    /\ UNCHANGED << distVars, nnVars, zoneVars, flagVars >>

InitAgg ==
    /\ agg_in \in SeqsUpTo(ClassifiedRows, MaxRecords)
    /\ aggOutcome = "idle" /\ df_aggregated = << >>
    /\ DistIdle /\ NnIdle /\ ZoneIdle /\ FlagIdle

NextAgg == aggregate_poi_by_hex

SpecAgg == InitAgg /\ [][NextAgg]_vars

\* the input rows of cell h whose flag c is 1
RowsWithFlag(h, c) ==
    { i \in 1..Len(agg_in) : agg_in[i].hex_id = h /\ agg_in[i].flags[c] = 1 }

RECURSIVE TotalOf(_, _)
TotalOf(rows, c) ==
    IF rows = << >> THEN 0 ELSE Head(rows).counts[c] + TotalOf(Tail(rows), c)

\* C1: the result has exactly one row per cell id of the input and no row
\* for any other cell id; each count is the number of input rows of that
\* cell whose flag is 1; per column, the counts of all output rows add up
\* to the number of input rows whose flag is 1.
C1_OneRowPerCellCounts ==
    aggOutcome = "returned" =>
        /\ { df_aggregated[g].hex_id : g \in 1..Len(df_aggregated) }
               = { agg_in[i].hex_id : i \in 1..Len(agg_in) }
        /\ \A g, k \in 1..Len(df_aggregated) :
               df_aggregated[g].hex_id = df_aggregated[k].hex_id => g = k
        /\ \A g \in 1..Len(df_aggregated) : \A c \in poi_columns :
               df_aggregated[g].counts[c]
                   = Cardinality(RowsWithFlag(df_aggregated[g].hex_id, c))
        /\ \A c \in poi_columns :
               TotalOf(df_aggregated, c)
                   = Cardinality({ i \in 1..Len(agg_in) : agg_in[i].flags[c] = 1 })

\* two cells in the input, one of them with a count of two
C1_Witness ==
    /\ aggOutcome = "returned"
    /\ Len(df_aggregated) = 2
    /\ \E g \in 1..Len(df_aggregated) : df_aggregated[g].counts["groceries_shop"] = 2

IndexPermutations(n) ==
    { p \in [1..n -> 1..n] : \A a, b \in 1..n : p[a] = p[b] => a = b }

Permuted(df, p) == [i \in 1..Len(df) |-> df[p[i]]]

\* C7: aggregating any permutation of the input gives the same set of rows
C7_OrderIndependent ==
    aggOutcome = "returned" =>
        \A p \in IndexPermutations(Len(agg_in)) :
            Range(Aggregate(Permuted(agg_in, p))) = Range(df_aggregated)

\* an input whose rows of one cell differ, so that reordering changes the
\* order in which the group is summed
C7_Witness ==
    /\ aggOutcome = "returned"
    /\ \E i, j \in 1..Len(agg_in) :
          /\ i < j
          /\ agg_in[i].hex_id = agg_in[j].hex_id
          /\ agg_in[i].flags # agg_in[j].flags
    /\ \E i, j \in 1..Len(agg_in) :
          i < j /\ agg_in[i].hex_id > agg_in[j].hex_id

=============================================================================
